---- MODULE Spec2Model ----
(***************************************************************************)
(* A model of the BentoPDF WASM proxy worker                               *)
(* (cloudflare/wasm-proxy-worker.js), and of the base path a               *)
(* LibreOfficeConverter of the page takes (js/utils/libreoffice-loader).   *)
(*                                                                         *)
(* Strings are written as the sequence of their tokens: "/gs/gs.js" is     *)
(* <<"/", "gs", "/", "gs", ".", "js">>.  The separators "/" and "." are    *)
(* tokens of their own and no other token of a path contains one, so       *)
(* startsWith, endsWith, lastIndexOf('.'), includes('.') and substring on  *)
(* the strings are the same operations on the token sequences.  A base URL *)
(* is one token, followed by "/" when it ends in a slash.  An origin is the*)
(* sequence of an allow-list entry (one token) and what follows it, or one *)
(* token that no allow-list entry is a prefix of.  A header that is absent *)
(* (null) is the empty sequence, which is falsy like null and "".          *)
(***************************************************************************)
EXTENDS Integers, Sequences, FiniteSets, TLC

\* ------------------------------------------------------------ constants

ALLOWED_ORIGINS ==
    << <<"https://www.bentopdf.com">>,
       <<"https://bentopdf.com">>,
       <<"https://bentopdf-32l.pages.dev">> >>

MAX_FILE_SIZE_BYTES == 100 * 1024 * 1024

RATE_LIMIT_MAX_REQUESTS == 100

RATE_LIMIT_WINDOW_MS == 60 * 1000

CACHE_TTL_SECONDS == 604800

ALLOWED_EXTENSIONS ==
    { <<".", "js">>, <<".", "mjs">>, <<".", "wasm">>, <<".", "data">>,
      <<".", "py">>, <<".", "so">>, <<".", "zip">>, <<".", "json">>,
      <<".", "mem">>, <<".", "asm", ".", "js">>,
      <<".", "worker", ".", "js">>, <<".", "html">>, <<".", "gz">> }

\* ------------------------------------------------------ string helpers

\* String.prototype.startsWith
StartsWith(s, p) ==
    /\ Len(p) <= Len(s)
    /\ SubSeq(s, 1, Len(p)) = p

\* String.prototype.endsWith
EndsWith(s, p) ==
    /\ Len(p) <= Len(s)
    /\ SubSeq(s, Len(s) - Len(p) + 1, Len(s)) = p

\* String.prototype.includes
Includes(s, p) ==
    \E i \in 1..(Len(s) - Len(p) + 1) : SubSeq(s, i, i + Len(p) - 1) = p

\* String.prototype.lastIndexOf, 0-based, -1 when absent
LastIndexOf(s, tok) ==
    LET hits == { i \in 1..Len(s) : s[i] = tok }
    IN  IF hits = {} THEN -1
        ELSE (CHOOSE i \in hits : \A j \in hits : j <= i) - 1

\* String.prototype.substring(start): a negative start counts as 0
Substring(s, start) ==
    LET from == IF start < 0 THEN 0 ELSE start
    IN  SubSeq(s, from + 1, Len(s))

\* String.prototype.toLowerCase on one token
LowerToken(tok) ==
    CASE tok = "JS"   -> "js"
      [] tok = "EXE"  -> "exe"
      [] tok = "WASM" -> "wasm"
      [] OTHER        -> tok

ToLowerCase(s) == [i \in 1..Len(s) |-> LowerToken(s[i])]

\* allowed.replace(/\/$/, '')
StripTrailingSlash(s) ==
    IF Len(s) > 0 /\ s[Len(s)] = "/" THEN SubSeq(s, 1, Len(s) - 1) ELSE s

\* --------------------------------------------------------- the guards

isAllowedOrigin(origin) ==
    IF origin = <<>> THEN TRUE
    ELSE \E i \in 1..Len(ALLOWED_ORIGINS) :
            StartsWith(origin, StripTrailingSlash(ALLOWED_ORIGINS[i]))

\* Mutant: the directory test with includes('/') for endsWith('/')
isAllowedFileAnySlash(pathname) ==
    LET ext == ToLowerCase(Substring(pathname, LastIndexOf(pathname, ".")))
    IN  IF ext \in ALLOWED_EXTENSIONS THEN TRUE
        ELSE IF ~Includes(pathname, <<".">>) \/ Includes(pathname, <<"/">>)
             THEN TRUE
             ELSE FALSE

isAllowedFile(pathname) ==
    LET ext == ToLowerCase(Substring(pathname, LastIndexOf(pathname, ".")))
    IN  IF ext \in ALLOWED_EXTENSIONS THEN TRUE
        ELSE IF ~Includes(pathname, <<".">>) \/ EndsWith(pathname, <<"/">>)
             THEN TRUE
             ELSE FALSE

\* ------------------------------------------------------------ responses

NoData == ""

\* A body: what it is, a JSON object's field names and error text, the bytes
\* (named, with their length), and the health body's configured routes
Body(kind, fields, data, len, configured) ==
    [kind |-> kind, fields |-> fields, data |-> data, len |-> len,
     configured |-> configured]

EmptyBody == Body("empty", {}, NoData, 0, {})

\* JSON.stringify of an object: its error text (or none) and its field names
JsonBody(error, fields) == Body("json", fields, error, 0, {})

TextBody(text) == Body("text", {}, text, 0, {})

BytesBody(data, len) == Body("bytes", {}, data, len, {})

Response(status, headers, body) ==
    [status |-> status, headers |-> headers, body |-> body]

NoResponse == Response(0, {}, EmptyBody)

\* Mutant: Access-Control-Allow-Origin '*' for every request
corsHeadersAnyOrigin(origin) ==
    { <<"Access-Control-Allow-Origin", <<"*">>>>,
      <<"Access-Control-Allow-Methods", <<"GET, HEAD, OPTIONS">>>>,
      <<"Access-Control-Allow-Headers", <<"Content-Type, Range, Cache-Control">>>>,
      <<"Access-Control-Expose-Headers", <<"Content-Length, Content-Range, Content-Type">>>>,
      <<"Access-Control-Max-Age", <<"86400">>>> }

corsHeaders(origin) ==
    { <<"Access-Control-Allow-Origin", IF origin = <<>> THEN <<"*">> ELSE origin>>,
      <<"Access-Control-Allow-Methods", <<"GET, HEAD, OPTIONS">>>>,
      <<"Access-Control-Allow-Headers", <<"Content-Type, Range, Cache-Control">>>>,
      <<"Access-Control-Expose-Headers", <<"Content-Length, Content-Range, Content-Type">>>>,
      <<"Access-Control-Max-Age", <<"86400">>>> }

JsonHeaders(origin) == corsHeaders(origin) \cup {<<"Content-Type", <<"application/json">>>>}

CacheControl == <<"Cache-Control", <<"public, max-age=", ToString(CACHE_TTL_SECONDS)>>>>

handleOptions(origin) == Response(204, corsHeaders(origin), EmptyBody)

getContentType(pathname) ==
    LET ext == ToLowerCase(Substring(pathname, LastIndexOf(pathname, ".")))
    IN  CASE ext = <<".", "js">>   -> "application/javascript"
          [] ext = <<".", "mjs">>  -> "application/javascript"
          [] ext = <<".", "wasm">> -> "application/wasm"
          [] ext = <<".", "json">> -> "application/json"
          [] ext = <<".", "data">> -> "application/octet-stream"
          [] ext = <<".", "py">>   -> "text/x-python"
          [] ext = <<".", "so">>   -> "application/octet-stream"
          [] ext = <<".", "zip">>  -> "application/zip"
          [] ext = <<".", "mem">>  -> "application/octet-stream"
          [] ext = <<".", "html">> -> "text/html"
          [] OTHER                 -> "application/octet-stream"

\* new URL(targetUrl).hostname: the upstream bases all name one host
Hostname(url) == IF url = <<>> THEN <<>> ELSE <<"cdn.example">>

\* --------------------------------------------------- upstream responses

\* The Content-Length header of a response that has none
Absent == -1

\* What one fetch of the upstream gives: a thrown network error, or a response
\* with a status, a Content-Length header (or none) and a body
Upstream(threw, status, declared, data, len) ==
    [threw |-> threw, status |-> status, declared |-> declared,
     data |-> data, len |-> len]

NoUpstream == Upstream(FALSE, 0, Absent, NoData, 0)

NetworkError == Upstream(TRUE, 0, Absent, NoData, 0)

\* Response.ok
Ok(up) == up.status >= 200 /\ up.status <= 299

\* parseInt(response.headers.get('Content-Length') || '0', 10)
ContentLength(up) == IF up.declared = Absent THEN 0 ELSE up.declared

\* Mutant: the size test with >= for >
TooLargeOrEqual(up) == ContentLength(up) >= MAX_FILE_SIZE_BYTES

\* contentLength > MAX_FILE_SIZE_BYTES
TooLarge(up) == ContentLength(up) > MAX_FILE_SIZE_BYTES

\* ------------------------------------------------------------- bounds

\* Requests the model lets arrive in one run
MaxRequests == 3

\* Clock steps in one run
MaxTicks == 1

\* ------------------------------------------------------------ the state

Handlers == {1, 2}

\* CF-Connecting-IP values; "" is the absent header
ClientIPs == {"203.0.113.7", ""}

VARIABLES
    env,    \* the bindings: RATE_LIMIT_KV and the four *_SOURCE base URLs
    time,   \* Date.now(), in ms
    kv,     \* RATE_LIMIT_KV: key -> the stored requests list
    cache,  \* caches.default: the stored entries, at most one per URL
    pc,     \* where each invocation of fetch() is: "idle", an await, or "done"
    req,    \* the request an invocation handles
    loc,    \* its locals
    resp,   \* the Response it returned
    ops,    \* how often it has used the store, the cache and the upstream
    nreq,   \* requests arrived so far
    importMetaEnv,  \* the browser build's import.meta.env
    converter       \* the LibreOfficeConverter the page has constructed

vars == <<env, time, kv, cache, pc, req, loc, resp, ops, nreq, importMetaEnv, converter>>

\* The worker's steps leave the page's loader alone
loader == <<importMetaEnv, converter>>

\* A request: its method, Origin header, URL pathname and CF-Connecting-IP
\* header, and its place in the order of arrival
Request(id, method, origin, pathname, ip) ==
    [id |-> id, method |-> method, origin |-> origin, pathname |-> pathname,
     ip |-> ip]

NoRequest == Request(0, "", <<>>, <<>>, "")

Locals(now, recent, fn, subpath, path, target, up) ==
    [now |-> now, recent |-> recent, fn |-> fn, subpath |-> subpath,
     path |-> path, target |-> target, up |-> up]

NoLocals == Locals(0, <<>>, "", <<>>, <<>>, <<>>, NoUpstream)

NoOps == [kvGet |-> 0, kvPut |-> 0, cacheMatch |-> 0, cachePut |-> 0, fetch |-> 0]

\* `wasm-ratelimit:${clientIP}` with clientIP = header || 'unknown'
RateLimitKey(ip) == <<"wasm-ratelimit:", IF ip = "" THEN "unknown" ELSE ip>>

RateLimitKeys == { RateLimitKey(ip) : ip \in ClientIPs }

\* requests.filter((t) => now - t < RATE_LIMIT_WINDOW_MS)
RecentRequests(requests, now) ==
    SelectSeq(requests, LAMBDA t : now - t < RATE_LIMIT_WINDOW_MS)

\* Mutant: the budget test with > for >=
OverBudgetStrict(recent) == Len(recent) > RATE_LIMIT_MAX_REQUESTS

\* recentRequests.length >= RATE_LIMIT_MAX_REQUESTS
OverBudget(recent) == Len(recent) >= RATE_LIMIT_MAX_REQUESTS

\* A list of n timestamps t, as n admitted requests at time t leave it
Stored(n, t) == [i \in 1..n |-> t]

\* The cache entry stored for a URL, as a set (empty on a miss)
Match(url) == { e \in cache : e.url = url }

\* Mutant: the max-age taken for milliseconds
ExpiredSeconds(e) == time - e.storedAt >= CACHE_TTL_SECONDS

\* An entry's max-age (CACHE_TTL_SECONDS, set on the stored response) has passed
Expired(e) == time - e.storedAt >= CACHE_TTL_SECONDS * 1000

\* ------------------------------------------------- the synchronous steps

\* String.prototype.replace(pattern, ''): the first occurrence removed
RemoveFirst(s, p) ==
    LET hits == { i \in 1..(Len(s) - Len(p) + 1) : SubSeq(s, i, i + Len(p) - 1) = p }
    IN  IF hits = {} THEN s
        ELSE LET i == CHOOSE k \in hits : \A j \in hits : k <= j
             IN  SubSeq(s, 1, i - 1) \o SubSeq(s, i + Len(p), Len(s))

NormalizedBase(sourceBaseUrl) ==
    IF EndsWith(sourceBaseUrl, <<"/">>)
    THEN SubSeq(sourceBaseUrl, 1, Len(sourceBaseUrl) - 1)
    ELSE sourceBaseUrl

NormalizedPath(subpath) ==
    IF StartsWith(subpath, <<"/">>) THEN subpath ELSE <<"/">> \o subpath

TargetUrl(sourceBaseUrl, subpath) ==
    NormalizedBase(sourceBaseUrl) \o NormalizedPath(subpath)

\* What a synchronous stretch of the handler ends in: the await it stops at
\* (with the locals set so far), or "done" with the Response returned
Step(to, response, fn, subpath, path, target) ==
    [pc |-> to, resp |-> response, fn |-> fn, subpath |-> subpath,
     path |-> path, target |-> target]

Return(response) == Step("done", response, "", <<>>, <<>>, <<>>)

\* proxyRequest up to its first await (cache.match)
proxyRequestStart(sourceBaseUrl, subpath, origin) ==
    IF sourceBaseUrl = <<>>
    THEN Return(Response(503, JsonHeaders(origin),
                         JsonBody("Source not configured", {"error", "message"})))
    ELSE IF ~isAllowedFile(NormalizedPath(subpath))
    THEN Step("done",
              Response(403, JsonHeaders(origin),
                       JsonBody("Forbidden file type", {"error", "message"})),
              "proxy", subpath, NormalizedPath(subpath),
              TargetUrl(sourceBaseUrl, subpath))
    ELSE Step("cache_match", NoResponse, "proxy", subpath,
              NormalizedPath(subpath), TargetUrl(sourceBaseUrl, subpath))

\* Mutant: proxyLibreOfficeGz without the test of its source
proxyLibreOfficeGzStartUnchecked(sourceBaseUrl, subpath, origin) ==
    Step("gz_fetch", NoResponse, "gz", subpath,
         NormalizedPath(subpath), TargetUrl(sourceBaseUrl, subpath))

\* Mutant: proxyLibreOfficeGz looking its target up in the cache as
\* proxyRequest does
proxyLibreOfficeGzStartCached(sourceBaseUrl, subpath, origin) ==
    IF sourceBaseUrl = <<>>
    THEN Return(Response(503, JsonHeaders(origin),
                         JsonBody("Source not configured", {"error"})))
    ELSE Step("cache_match", NoResponse, "gz", subpath,
              NormalizedPath(subpath), TargetUrl(sourceBaseUrl, subpath))

\* proxyLibreOfficeGz up to its first await (fetch)
proxyLibreOfficeGzStart(sourceBaseUrl, subpath, origin) ==
    IF sourceBaseUrl = <<>>
    THEN Return(Response(503, JsonHeaders(origin),
                         JsonBody("Source not configured", {"error"})))
    ELSE Step("gz_fetch", NoResponse, "gz", subpath,
              NormalizedPath(subpath), TargetUrl(sourceBaseUrl, subpath))

HealthBody(e) ==
    Body("json", {"service", "version", "endpoints", "configured"}, NoData, 0,
         { r \in {"libreoffice", "pymupdf", "gs", "cpdf"} :
             CASE r = "libreoffice" -> e.LIBREOFFICE_SOURCE # <<>>
               [] r = "pymupdf"     -> e.PYMUPDF_SOURCE # <<>>
               [] r = "gs"          -> e.GS_SOURCE # <<>>
               [] r = "cpdf"        -> e.CPDF_SOURCE # <<>> })

\* The route dispatch of fetch(): from the libreoffice test to the 404
Dispatch(e, pathname, origin) ==
    IF StartsWith(pathname, <<"/", "libreoffice", "/">>)
    THEN LET subpath == RemoveFirst(pathname, <<"/", "libreoffice">>)
         IN  IF EndsWith(subpath, <<".", "wasm">>) \/ EndsWith(subpath, <<".", "data">>)
             THEN proxyLibreOfficeGzStart(e.LIBREOFFICE_SOURCE,
                                          subpath \o <<".", "gz">>, origin)
             ELSE IF EndsWith(subpath, <<".", "gz">>)
             THEN proxyLibreOfficeGzStart(e.LIBREOFFICE_SOURCE, subpath, origin)
             ELSE proxyRequestStart(e.LIBREOFFICE_SOURCE, subpath, origin)
    ELSE IF StartsWith(pathname, <<"/", "pymupdf", "/">>)
    THEN proxyRequestStart(e.PYMUPDF_SOURCE,
                           RemoveFirst(pathname, <<"/", "pymupdf">>), origin)
    ELSE IF StartsWith(pathname, <<"/", "gs", "/">>)
    THEN proxyRequestStart(e.GS_SOURCE,
                           RemoveFirst(pathname, <<"/", "gs">>), origin)
    ELSE IF StartsWith(pathname, <<"/", "cpdf", "/">>)
    THEN proxyRequestStart(e.CPDF_SOURCE,
                           RemoveFirst(pathname, <<"/", "cpdf">>), origin)
    ELSE IF pathname = <<"/">> \/ pathname = <<"/", "health">>
    THEN Return(Response(200, JsonHeaders(origin), HealthBody(e)))
    ELSE Return(Response(404, JsonHeaders(origin),
                         JsonBody("Not Found", {"error", "message"})))

\* Mutant: the method check before the origin guard
fetchStartMethodFirst(e, r) ==
    IF r.method = "OPTIONS"
    THEN Return(handleOptions(r.origin))
    ELSE IF r.method # "GET" /\ r.method # "HEAD"
    THEN Return(Response(405, corsHeaders(r.origin), TextBody("Method not allowed")))
    ELSE IF ~isAllowedOrigin(r.origin)
    THEN Return(Response(403, JsonHeaders(r.origin),
                         JsonBody("Forbidden", {"error", "message"})))
    ELSE IF e.RATE_LIMIT_KV
    THEN Step("kv_get", NoResponse, "", <<>>, <<>>, <<>>)
    ELSE Dispatch(e, r.pathname, r.origin)

\* Mutant: the rate limiter before the method check
fetchStartLimiterFirst(e, r) ==
    IF r.method = "OPTIONS"
    THEN Return(handleOptions(r.origin))
    ELSE IF ~isAllowedOrigin(r.origin)
    THEN Return(Response(403, JsonHeaders(r.origin),
                         JsonBody("Forbidden", {"error", "message"})))
    ELSE IF e.RATE_LIMIT_KV
    THEN Step("kv_get", NoResponse, "", <<>>, <<>>, <<>>)
    ELSE IF r.method # "GET" /\ r.method # "HEAD"
    THEN Return(Response(405, corsHeaders(r.origin), TextBody("Method not allowed")))
    ELSE Dispatch(e, r.pathname, r.origin)

\* Mutant: the origin guard before the preflight test
fetchStartGuardFirst(e, r) ==
    IF ~isAllowedOrigin(r.origin)
    THEN Return(Response(403, JsonHeaders(r.origin),
                         JsonBody("Forbidden", {"error", "message"})))
    ELSE IF r.method = "OPTIONS"
    THEN Return(handleOptions(r.origin))
    ELSE IF r.method # "GET" /\ r.method # "HEAD"
    THEN Return(Response(405, corsHeaders(r.origin), TextBody("Method not allowed")))
    ELSE IF e.RATE_LIMIT_KV
    THEN Step("kv_get", NoResponse, "", <<>>, <<>>, <<>>)
    ELSE Dispatch(e, r.pathname, r.origin)

\* fetch() up to its first await: the preflight, the origin guard, the method
\* check, and with no store bound the dispatch
fetchStart(e, r) ==
    IF r.method = "OPTIONS"
    THEN Return(handleOptions(r.origin))
    ELSE IF ~isAllowedOrigin(r.origin)
    THEN Return(Response(403, JsonHeaders(r.origin),
                         JsonBody("Forbidden", {"error", "message"})))
    ELSE IF r.method # "GET" /\ r.method # "HEAD"
    THEN Return(Response(405, corsHeaders(r.origin), TextBody("Method not allowed")))
    ELSE IF e.RATE_LIMIT_KV
    THEN Step("kv_get", NoResponse, "", <<>>, <<>>, <<>>)
    ELSE Dispatch(e, r.pathname, r.origin)

\* ------------------------------------------------------------- actions

\* Handler h goes on to where a synchronous stretch ended
Enter(h, s, now, recent, up) ==
    /\ pc' = [pc EXCEPT ![h] = s.pc]
    /\ resp' = [resp EXCEPT ![h] = s.resp]
    /\ loc' = [loc EXCEPT ![h] =
                 Locals(now, recent, s.fn, s.subpath, s.path, s.target, up)]

\* Mutant: a first fetch that failed with a 5xx or a network error is tried again
FinishRetry(h, response, up) ==
    IF response.status >= 500 /\ ops[h].fetch = 0
    THEN /\ pc' = pc
         /\ resp' = resp
         /\ loc' = [loc EXCEPT ![h].up = up]
    ELSE /\ pc' = [pc EXCEPT ![h] = "done"]
         /\ resp' = [resp EXCEPT ![h] = response]
         /\ loc' = [loc EXCEPT ![h].up = up]

\* Handler h returns a Response from inside proxyRequest or proxyLibreOfficeGz
Finish(h, response, up) ==
    /\ pc' = [pc EXCEPT ![h] = "done"]
    /\ resp' = [resp EXCEPT ![h] = response]
    /\ loc' = [loc EXCEPT ![h].up = up]

\* fetch() is invoked with request r and runs to its first await
Invoke(h, r) ==
    /\ pc[h] = "idle"
    /\ req' = [req EXCEPT ![h] = r]
    /\ ops' = [ops EXCEPT ![h] = NoOps]
    /\ Enter(h, fetchStart(env, r), time, <<>>, NoUpstream)
    /\ UNCHANGED <<loader, env, time, kv, cache>>

\* A request arrives, while the run may take more
Receive(h, method, origin, pathname, ip) ==
    /\ nreq < MaxRequests
    /\ nreq' = nreq + 1
    /\ Invoke(h, Request(nreq + 1, method, origin, pathname, ip))

\* A request arrives when no other is being handled
ReceiveAlone(h, method, origin, pathname, ip) ==
    /\ \A g \in Handlers \ {h} : pc[g] \in {"idle", "done"}
    /\ Receive(h, method, origin, pathname, ip)

\* Mutant: the timestamp appended to the stored list, the old entries kept
KvGetKeepsStale(h) ==
    /\ pc[h] = "kv_get"
    /\ ops' = [ops EXCEPT ![h].kvGet = @ + 1]
    /\ LET requests == kv[RateLimitKey(req[h].ip)]
           recentRequests == RecentRequests(requests, loc[h].now)
       IN  IF OverBudget(recentRequests)
           THEN /\ pc' = [pc EXCEPT ![h] = "done"]
                /\ resp' = [resp EXCEPT ![h] =
                     Response(429,
                              JsonHeaders(req[h].origin) \cup {<<"Retry-After", <<"60">>>>},
                              JsonBody("Rate limit exceeded", {"error", "message"}))]
                /\ loc' = loc
           ELSE /\ pc' = [pc EXCEPT ![h] = "kv_put"]
                /\ loc' = [loc EXCEPT ![h].recent = Append(requests, loc[h].now)]
                /\ resp' = resp
    /\ UNCHANGED <<loader, env, time, kv, cache, req, nreq>>

\* Mutant: a rejected request is counted too, its timestamp written to the store
KvGetCountsRejected(h) ==
    /\ pc[h] = "kv_get"
    /\ ops' = [ops EXCEPT ![h].kvGet = @ + 1]
    /\ LET requests == kv[RateLimitKey(req[h].ip)]
           recentRequests == RecentRequests(requests, loc[h].now)
       IN  IF OverBudget(recentRequests)
           THEN /\ pc' = [pc EXCEPT ![h] = "done"]
                /\ resp' = [resp EXCEPT ![h] =
                     Response(429,
                              JsonHeaders(req[h].origin) \cup {<<"Retry-After", <<"60">>>>},
                              JsonBody("Rate limit exceeded", {"error", "message"}))]
                /\ loc' = loc
                /\ kv' = [kv EXCEPT ![RateLimitKey(req[h].ip)] =
                            Append(recentRequests, loc[h].now)]
           ELSE /\ pc' = [pc EXCEPT ![h] = "kv_put"]
                /\ loc' = [loc EXCEPT ![h].recent = Append(recentRequests, loc[h].now)]
                /\ resp' = resp
                /\ kv' = kv
    /\ UNCHANGED <<loader, env, time, cache, req, nreq>>

\* await env.RATE_LIMIT_KV.get(...), the filter and the budget test
KvGet(h) ==
    /\ pc[h] = "kv_get"
    /\ ops' = [ops EXCEPT ![h].kvGet = @ + 1]
    /\ LET requests == kv[RateLimitKey(req[h].ip)]
           recentRequests == RecentRequests(requests, loc[h].now)
       IN  IF OverBudget(recentRequests)
           THEN /\ pc' = [pc EXCEPT ![h] = "done"]
                /\ resp' = [resp EXCEPT ![h] =
                     Response(429,
                              JsonHeaders(req[h].origin) \cup {<<"Retry-After", <<"60">>>>},
                              JsonBody("Rate limit exceeded", {"error", "message"}))]
                /\ loc' = loc
           ELSE /\ pc' = [pc EXCEPT ![h] = "kv_put"]
                /\ loc' = [loc EXCEPT ![h].recent = Append(recentRequests, loc[h].now)]
                /\ resp' = resp
    /\ UNCHANGED <<loader, env, time, kv, cache, req, nreq>>

\* Mutant: the write appends to the list the store holds at the write
KvPutAtomic(h) ==
    /\ pc[h] = "kv_put"
    /\ ops' = [ops EXCEPT ![h].kvPut = @ + 1]
    /\ kv' = [kv EXCEPT ![RateLimitKey(req[h].ip)] =
                Append(RecentRequests(@, loc[h].now), loc[h].now)]
    /\ Enter(h, Dispatch(env, req[h].pathname, req[h].origin),
             loc[h].now, loc[h].recent, NoUpstream)
    /\ UNCHANGED <<loader, env, time, cache, req, nreq>>

\* await env.RATE_LIMIT_KV.put(...), then the dispatch up to its first await
KvPut(h) ==
    /\ pc[h] = "kv_put"
    /\ ops' = [ops EXCEPT ![h].kvPut = @ + 1]
    /\ kv' = [kv EXCEPT ![RateLimitKey(req[h].ip)] = loc[h].recent]
    /\ Enter(h, Dispatch(env, req[h].pathname, req[h].origin),
             loc[h].now, loc[h].recent, NoUpstream)
    /\ UNCHANGED <<loader, env, time, cache, req, nreq>>

\* The 200 of proxyRequest: the body read into memory and sent again
Proxied(h, data, len) ==
    Response(200,
             corsHeaders(req[h].origin)
               \cup { <<"Content-Type", <<getContentType(loc[h].path)>>>>,
                      <<"Content-Length", <<ToString(len)>>>>,
                      CacheControl,
                      <<"X-Proxied-From", Hostname(loc[h].target)>> },
             BytesBody(data, len))

\* await cache.match(cacheKey): on a hit the cached body is sent
CacheMatch(h) ==
    /\ pc[h] = "cache_match"
    /\ ops' = [ops EXCEPT ![h].cacheMatch = @ + 1]
    /\ IF Match(loc[h].target) # {}
       THEN LET e == CHOOSE x \in Match(loc[h].target) : TRUE
            IN  Finish(h, Proxied(h, e.up.data, e.up.len), loc[h].up)
       ELSE /\ pc' = [pc EXCEPT ![h] = "fetch"]
            /\ UNCHANGED <<resp, loc>>
    /\ UNCHANGED <<loader, env, time, kv, cache, req, nreq>>

\* await fetch(targetUrl) in proxyRequest, with what the upstream gives
Fetch(h, up) ==
    /\ pc[h] = "fetch"
    /\ ops' = [ops EXCEPT ![h].fetch = @ + 1]
    /\ IF up.threw
       THEN Finish(h, Response(500, JsonHeaders(req[h].origin),
                               JsonBody("Proxy error", {"error", "message"})), up)
       ELSE IF ~Ok(up)
       THEN Finish(h, Response(up.status, JsonHeaders(req[h].origin),
                               JsonBody("Failed to fetch resource",
                                        {"error", "status", "statusText", "targetUrl"})), up)
       ELSE IF TooLarge(up)
       THEN Finish(h, Response(413, JsonHeaders(req[h].origin),
                               JsonBody("File too large", {"error", "message"})), up)
       ELSE IF up.status = 200
       THEN /\ pc' = [pc EXCEPT ![h] = "cache_put"]
            /\ loc' = [loc EXCEPT ![h].up = up]
            /\ resp' = resp
       ELSE Finish(h, Proxied(h, up.data, up.len), up)
    /\ UNCHANGED <<loader, env, time, kv, cache, req, nreq>>

\* await cache.put(cacheKey, response.clone()), then the 200
CachePut(h) ==
    /\ pc[h] = "cache_put"
    /\ ops' = [ops EXCEPT ![h].cachePut = @ + 1]
    /\ cache' = (cache \ Match(loc[h].target))
                  \cup {[url |-> loc[h].target, up |-> loc[h].up, storedAt |-> time]}
    /\ Finish(h, Proxied(h, loc[h].up.data, loc[h].up.len), loc[h].up)
    /\ UNCHANGED <<loader, env, time, kv, req, nreq>>

\* Mutant: the content type of every file application/octet-stream
GzContentTypeOctet(subpath) == "application/octet-stream"

\* The content type proxyLibreOfficeGz sends, from the subpath it was given
GzContentType(subpath) ==
    IF Includes(subpath, <<"soffice", ".", "wasm">>)
    THEN "application/wasm"
    ELSE "application/octet-stream"

\* await fetch(targetUrl) in proxyLibreOfficeGz, with what the upstream gives
GzFetch(h, up) ==
    /\ pc[h] = "gz_fetch"
    /\ ops' = [ops EXCEPT ![h].fetch = @ + 1]
    /\ IF up.threw
       THEN Finish(h, Response(500, JsonHeaders(req[h].origin),
                               JsonBody("Proxy error", {"error", "message"})), up)
       ELSE IF ~Ok(up)
       THEN Finish(h, Response(up.status, JsonHeaders(req[h].origin),
                               JsonBody("Failed to fetch", {"error", "status", "targetUrl"})), up)
       ELSE Finish(h,
              Response(200,
                       corsHeaders(req[h].origin)
                         \cup { <<"Content-Type", <<GzContentType(loc[h].subpath)>>>>,
                                <<"Content-Encoding", <<"gzip">>>>,
                                <<"Content-Length", <<ToString(up.len)>>>>,
                                CacheControl },
                       BytesBody(up.data, up.len)), up)
    /\ UNCHANGED <<loader, env, time, kv, cache, req, nreq>>

\* The Response has gone out: the invocation is over
Complete(h) ==
    /\ pc[h] = "done"
    /\ pc' = [pc EXCEPT ![h] = "idle"]
    /\ req' = [req EXCEPT ![h] = NoRequest]
    /\ resp' = [resp EXCEPT ![h] = NoResponse]
    /\ loc' = [loc EXCEPT ![h] = NoLocals]
    /\ ops' = [ops EXCEPT ![h] = NoOps]
    /\ UNCHANGED <<loader, env, time, kv, cache, nreq>>

\* Time passes
Tick(step, horizon) ==
    /\ time + step <= horizon
    /\ time' = time + step
    /\ UNCHANGED <<loader, env, kv, cache, pc, req, loc, resp, ops, nreq>>

\* The cache drops an entry whose max-age has passed
CacheExpire(e) ==
    /\ e \in cache
    /\ Expired(e)
    /\ cache' = cache \ {e}
    /\ UNCHANGED <<loader, env, time, kv, pc, req, loc, resp, ops, nreq>>

\* ------------------------------------------------------------- inputs

Methods == {"GET", "HEAD", "OPTIONS", "POST", "PUT", "DELETE", "PATCH"}

OriginNone == <<>>

OriginSite == <<"https://bentopdf.com">>

OriginLookalike == <<"https://bentopdf.com", ".evil.example">>

OriginPort == <<"https://bentopdf.com", ":8443">>

OriginForeign == <<"https://evil.example">>

Origins == {OriginNone, OriginSite, OriginLookalike, OriginPort, OriginForeign}

ClientIP == "203.0.113.7"

Paths ==
    { <<"/">>,
      <<"/", "health">>,
      <<"/", "other">>,
      <<"/", "gs", "/", "gs", ".", "js">>,
      <<"/", "gs", "/", "GS", ".", "JS">>,
      <<"/", "gs", "/", "evil", ".", "exe">>,
      <<"/", "gs", "/", "evil", ".", "EXE">>,
      <<"/", "gs", "/", "v1", ".", "2", "/", "manifest">>,
      <<"/", "gs", "/", "manifest">>,
      <<"/", "gs", "/", "evil", ".", "exe", "/">>,
      <<"/", "pymupdf", "/", "pymupdf", ".", "wasm">>,
      <<"/", "pymupdf", "/", "run", ".", "bat">>,
      <<"/", "cpdf", "/", "cpdf", ".", "js">>,
      <<"/", "cpdf", "/", "evil", ".", "exe">>,
      <<"/", "libreoffice", "/", "soffice", ".", "js">>,
      <<"/", "libreoffice", "/", "evil", ".", "exe">>,
      <<"/", "libreoffice", "/", "soffice", ".", "wasm">>,
      <<"/", "libreoffice", "/", "soffice", ".", "data">>,
      <<"/", "libreoffice", "/", "soffice", ".", "wasm", ".", "gz">>,
      <<"/", "libreoffice", "/", "other", ".", "wasm">> }

\* The environments: with the store bound and every source but CPDF_SOURCE set
\* (one with a trailing slash), and with no store and no LIBREOFFICE_SOURCE
Env(kvBound, lo, pymupdf, gs, cpdf) ==
    [RATE_LIMIT_KV |-> kvBound, LIBREOFFICE_SOURCE |-> lo,
     PYMUPDF_SOURCE |-> pymupdf, GS_SOURCE |-> gs, CPDF_SOURCE |-> cpdf]

EnvLimited ==
    Env(TRUE, <<"https://cdn.example/lo">>, <<"https://cdn.example/pymupdf", "/">>,
        <<"https://cdn.example/gs">>, <<>>)

EnvOpen ==
    Env(FALSE, <<>>, <<"https://cdn.example/pymupdf", "/">>,
        <<"https://cdn.example/gs">>, <<>>)

Envs == {EnvLimited, EnvOpen}

\* What the upstream may answer
Upstreams ==
    { NetworkError,
      Upstream(FALSE, 404, Absent, NoData, 0),
      Upstream(FALSE, 200, 1024, "v1", 1024),
      Upstream(FALSE, 200, 2048, "v2", 2048),
      Upstream(FALSE, 200, Absent, "v1", 1024),
      Upstream(FALSE, 200, MAX_FILE_SIZE_BYTES, "max", MAX_FILE_SIZE_BYTES),
      Upstream(FALSE, 200, MAX_FILE_SIZE_BYTES + 1, "huge", MAX_FILE_SIZE_BYTES + 1),
      Upstream(FALSE, 200, Absent, "huge", MAX_FILE_SIZE_BYTES + 1),
      Upstream(FALSE, 203, 1024, "v1", 1024),
      Upstream(FALSE, 203, MAX_FILE_SIZE_BYTES + 1, "huge", MAX_FILE_SIZE_BYTES + 1) }

\* The store as the run finds it: empty, or holding what the client's earlier
\* requests left, one short of the budget
EmptyStore == [k \in RateLimitKeys |-> <<>>]

NearBudgetStore ==
    [EmptyStore EXCEPT ![RateLimitKey(ClientIP)] =
        Stored(RATE_LIMIT_MAX_REQUESTS - 1, 0)]

\* ------------------------------------------- the asset-path resolver

\* import.meta.env of the page; a variable that is not set is <<>>
MetaEnv(baseUrl, useCdn, cdnUrl) ==
    [BASE_URL |-> baseUrl, VITE_USE_CDN |-> useCdn,
     VITE_LIBREOFFICE_CDN_URL |-> cdnUrl]

NoMetaEnv == MetaEnv(<<"/">>, <<>>, <<>>)

DefaultCdnUrl ==
    <<"https://cdn.jsdelivr.net/npm/@bentopdf/libreoffice-wasm@2.3.1/assets/">>

\* A converter: whether one was constructed, the constructor's argument
\* (<<>> when none was given) and its basePath
Converter(made, override, basePath) ==
    [made |-> made, override |-> override, basePath |-> basePath]

NoConverter == Converter(FALSE, <<>>, <<>>)

\* Mutant: the remote-delivery flag decides before the explicit remote base
ResolveBasePathFlagFirst(e, override) ==
    IF override # <<>> THEN override
    ELSE IF e.VITE_USE_CDN = <<"true">>
    THEN (IF e.VITE_LIBREOFFICE_CDN_URL # <<>>
          THEN e.VITE_LIBREOFFICE_CDN_URL ELSE DefaultCdnUrl)
    ELSE e.BASE_URL \o <<"libreoffice-wasm", "/">>

\* The basePath a new LibreOfficeConverter takes
ResolveBasePath(e, override) ==
    IF override # <<>> THEN override
    ELSE IF e.VITE_LIBREOFFICE_CDN_URL # <<>> THEN e.VITE_LIBREOFFICE_CDN_URL
    ELSE IF e.VITE_USE_CDN = <<"true">> THEN DefaultCdnUrl
    ELSE e.BASE_URL \o <<"libreoffice-wasm", "/">>

\* new LibreOfficeConverter(override)
NewConverter(override) ==
    /\ converter' = Converter(TRUE, override, ResolveBasePath(importMetaEnv, override))
    /\ UNCHANGED <<importMetaEnv, env, time, kv, cache, pc, req, loc, resp, ops, nreq>>

\* The module is loaded again under another import.meta.env
ResetModules(e) ==
    /\ importMetaEnv' = e
    /\ converter' = NoConverter
    /\ UNCHANGED <<env, time, kv, cache, pc, req, loc, resp, ops, nreq>>

BaseUrls == { <<"/">>, <<"/", "bentopdf", "/">>, <<"/", "tools", "/", "pdf", "/">> }

UseCdnValues == { <<>>, <<"true">>, <<"false">> }

CdnUrls ==
    { <<>>,
      <<"https://custom-cdn.example.com/libreoffice/">>,
      <<"https://priority-cdn.example.com/wasm/">> }

Overrides ==
    { <<>>,
      <<"https://override.example.com/custom/">>,
      <<"/", "vendor", "/", "lo", "/">>,
      <<"https://cdn.jsdelivr.net/npm/@bentopdf/libreoffice-wasm@2.3.1/assets/">> }

MetaEnvs ==
    { MetaEnv(b, u, c) : b \in BaseUrls, u \in UseCdnValues, c \in CdnUrls }

\* ------------------------------------------------------ specifications

InitWith(envs, stores) ==
    /\ importMetaEnv = NoMetaEnv
    /\ converter = NoConverter
    /\ env \in envs
    /\ time = 0
    /\ kv \in (IF env.RATE_LIMIT_KV THEN stores ELSE {EmptyStore})
    /\ cache = {}
    /\ pc = [h \in Handlers |-> "idle"]
    /\ req = [h \in Handlers |-> NoRequest]
    /\ loc = [h \in Handlers |-> NoLocals]
    /\ resp = [h \in Handlers |-> NoResponse]
    /\ ops = [h \in Handlers |-> NoOps]
    /\ nreq = 0

HalfWindow == RATE_LIMIT_WINDOW_MS \div 2

HalfTtl == (CACHE_TTL_SECONDS * 1000) \div 2

\* The handler's steps after the arrival of a request, the upstream answering
\* from ups
Handle(h, ups) ==
    \/ KvGet(h)
    \/ KvPut(h)
    \/ CacheMatch(h)
    \/ \E up \in ups : Fetch(h, up)
    \/ CachePut(h)
    \/ \E up \in ups : GzFetch(h, up)
    \/ Complete(h)

\* Concurrent invocations: requests of one client arrive and are handled in
\* any interleaving
ConcurrentPaths ==
    { <<"/", "gs", "/", "gs", ".", "js">>,
      <<"/", "libreoffice", "/", "soffice", ".", "wasm">> }

ConcurrentUpstreams ==
    { Upstream(FALSE, 404, Absent, NoData, 0),
      Upstream(FALSE, 200, 1024, "v1", 1024),
      Upstream(FALSE, 200, MAX_FILE_SIZE_BYTES + 1, "huge", MAX_FILE_SIZE_BYTES + 1),
      Upstream(FALSE, 200, Absent, "huge", MAX_FILE_SIZE_BYTES + 1) }

Init == InitWith({EnvLimited}, {EmptyStore, NearBudgetStore})

Next ==
    \/ \E h \in Handlers, p \in ConcurrentPaths :
          Receive(h, "GET", OriginNone, p, ClientIP)
    \/ \E h \in Handlers : Handle(h, ConcurrentUpstreams)
    \/ Tick(2 * HalfWindow, MaxTicks * 2 * HalfWindow)

Spec == Init /\ [][Next]_vars

\* Requests of every method and origin, one at a time, the store empty or one
\* short of the client's budget
GuardPaths ==
    { <<"/", "health">>,
      <<"/", "other">>,
      <<"/", "gs", "/", "gs", ".", "js">>,
      <<"/", "libreoffice", "/", "soffice", ".", "wasm">> }

GuardUpstreams ==
    { NetworkError,
      Upstream(FALSE, 429, Absent, NoData, 0),
      Upstream(FALSE, 200, 1024, "v1", 1024),
      Upstream(FALSE, 200, MAX_FILE_SIZE_BYTES + 1, "huge", MAX_FILE_SIZE_BYTES + 1) }

InitGuard == InitWith(Envs, {EmptyStore, NearBudgetStore})

NextGuard ==
    \/ \E m \in Methods, o \in Origins, p \in GuardPaths :
          Receive(1, m, o, p, ClientIP)
    \/ Handle(1, GuardUpstreams)
    \/ Tick(HalfWindow, (MaxTicks + 1) * HalfWindow)

SpecGuard == InitGuard /\ [][NextGuard]_vars

\* GET and HEAD requests for every path, one at a time, the upstream answering
\* anything
InitGate == InitWith(Envs, {EmptyStore})

NextGate ==
    \/ \E m \in {"GET", "HEAD"}, p \in Paths :
          Receive(1, m, OriginNone, p, ClientIP)
    \/ Handle(1, Upstreams)

SpecGate == InitGate /\ [][NextGate]_vars

\* GET requests to the generic routes, one after another, while the clock passes
\* the cache's max-age
CachePaths ==
    { <<"/", "gs", "/", "gs", ".", "js">>,
      <<"/", "pymupdf", "/", "pymupdf", ".", "wasm">>,
      <<"/", "libreoffice", "/", "soffice", ".", "wasm">> }

CacheUpstreams ==
    { Upstream(FALSE, 404, Absent, NoData, 0),
      Upstream(FALSE, 200, 1024, "v1", 1024),
      Upstream(FALSE, 200, Absent, "v2", 2048) }

InitCache == InitWith({EnvLimited}, {EmptyStore})

NextCache ==
    \/ \E h \in Handlers, p \in CachePaths :
          ReceiveAlone(h, "GET", OriginNone, p, ClientIP)
    \/ \E h \in Handlers : Handle(h, CacheUpstreams)
    \/ Tick(HalfTtl, (MaxTicks + 1) * HalfTtl)
    \/ \E e \in cache : CacheExpire(e)

SpecCache == InitCache /\ [][NextCache]_vars

\* The page constructs converters under every import.meta.env; the worker
\* handles nothing meanwhile
InitLoader == InitWith({EnvLimited}, {EmptyStore})

NextLoader ==
    \/ \E o \in Overrides : NewConverter(o)
    \/ \E e \in MetaEnvs : ResetModules(e)

SpecLoader == InitLoader /\ [][NextLoader]_vars

\* ------------------------------------------------------------- claims

Done(h) == pc[h] = "done"

\* The request passed the preflight test, the origin guard and the method check
PastGuards(h) ==
    /\ req[h].method \in {"GET", "HEAD"}
    /\ isAllowedOrigin(req[h].origin)

\* The request reached the route dispatch
Dispatched(h) ==
    /\ PastGuards(h)
    /\ env.RATE_LIMIT_KV => ops[h].kvPut = 1

NoStoreUse(h) == ops[h].kvGet = 0 /\ ops[h].kvPut = 0

NoCacheUse(h) == ops[h].cacheMatch = 0 /\ ops[h].cachePut = 0

NoFetch(h) == ops[h].fetch = 0

\* How many of the stored timestamps lie in the 60 s before now
InWindow(stored, now) ==
    Cardinality({ i \in DOMAIN stored : now - stored[i] < 60000 })

ProxyRoutes == {"libreoffice", "pymupdf", "gs", "cpdf"}

\* The routes that always use the cache-aware fetcher
GenericRoutes == {"pymupdf", "gs", "cpdf"}

OnRoute(pathname, r) ==
    /\ Len(pathname) >= 3
    /\ pathname[1] = "/"
    /\ pathname[2] = r
    /\ pathname[3] = "/"

\* The path below the route's prefix
SubpathOf(pathname) == SubSeq(pathname, 3, Len(pathname))

SourceOf(e, r) ==
    CASE r = "libreoffice" -> e.LIBREOFFICE_SOURCE
      [] r = "pymupdf"     -> e.PYMUPDF_SOURCE
      [] r = "gs"          -> e.GS_SOURCE
      [] r = "cpdf"        -> e.CPDF_SOURCE

\* C1 (as claimed): every entry of the edge cache was stored from an upstream
\* fetch that returned a success status and whose payload did not exceed
\* 100 MiB, whether or not the upstream declared a Content-Length.
C1_CacheHoldsOnlySizedSuccesses ==
    \A e \in cache :
        /\ ~e.up.threw
        /\ e.up.status >= 200 /\ e.up.status <= 299
        /\ e.up.len <= 104857600

C3_DeniedOriginAlways403 ==
    \A h \in Handlers :
        (Done(h) /\ ~isAllowedOrigin(req[h].origin)) =>
            /\ resp[h].status = 403
            /\ resp[h].body.data = "Forbidden"
            /\ NoStoreUse(h) /\ NoCacheUse(h) /\ NoFetch(h)

\* C3 (amended): a request of any method but OPTIONS whose Origin the guard
\* denies gets the 403 origin denial; an OPTIONS request with such an Origin
\* gets the 204 preflight; neither uses the store, the cache or the upstream.
C3_DeniedOrigin403UnlessPreflight ==
    \A h \in Handlers :
        (Done(h) /\ ~isAllowedOrigin(req[h].origin)) =>
            /\ req[h].method # "OPTIONS" =>
                  resp[h].status = 403 /\ resp[h].body.data = "Forbidden"
            /\ req[h].method = "OPTIONS" => resp[h].status = 204
            /\ NoStoreUse(h) /\ NoCacheUse(h) /\ NoFetch(h)

C3_Witness ==
    \E h \in Handlers :
        /\ Done(h)
        /\ req[h].origin = OriginForeign
        /\ req[h].method = "POST"
        /\ resp[h].status = 403
        /\ env.RATE_LIMIT_KV
        /\ InWindow(kv[RateLimitKey(req[h].ip)], time) >= 100

\* C4 (as claimed): a GET or HEAD request whose Origin header is present and
\* equals no allow-list entry (a trailing slash of the entry stripped) is
\* answered 403 with a JSON body that has an error field.
C4_UnlistedOrigin403 ==
    \A h \in Handlers :
        (/\ Done(h)
         /\ req[h].method \in {"GET", "HEAD"}
         /\ req[h].origin # <<>>
         /\ \A i \in 1..Len(ALLOWED_ORIGINS) :
               req[h].origin # StripTrailingSlash(ALLOWED_ORIGINS[i])) =>
            /\ resp[h].status = 403
            /\ resp[h].body.kind = "json"
            /\ "error" \in resp[h].body.fields

\* The File-Type Gate's rejection in the claim's words: the subpath contains a
\* '.', does not end in '/', and its extension is not in the allow-list
Rejected(subpath) ==
    /\ \E i \in DOMAIN subpath : subpath[i] = "."
    /\ subpath[Len(subpath)] # "/"
    /\ LET last == CHOOSE i \in DOMAIN subpath :
                      /\ subpath[i] = "."
                      /\ \A j \in DOMAIN subpath : subpath[j] = "." => j <= i
       IN  ToLowerCase(SubSeq(subpath, last, Len(subpath))) \notin ALLOWED_EXTENSIONS

\* C5: on every proxy route with a configured upstream, a dispatched request
\* whose subpath the File-Type Gate rejects is answered 403, and no upstream
\* fetch is issued for a subpath the gate rejects.
C5_GateIsBoundary ==
    \A h \in Handlers :
        /\ \A r \in ProxyRoutes :
              (/\ Done(h)
               /\ Dispatched(h)
               /\ OnRoute(req[h].pathname, r)
               /\ SourceOf(env, r) # <<>>
               /\ Rejected(SubpathOf(req[h].pathname))) =>
                  /\ resp[h].status = 403
                  /\ resp[h].body.data = "Forbidden file type"
                  /\ NoFetch(h) /\ NoCacheUse(h)
        /\ (pc[h] \in {"fetch", "gz_fetch"} \/ ops[h].fetch > 0) =>
              /\ ~Rejected(loc[h].path)
              /\ \A r \in ProxyRoutes :
                    OnRoute(req[h].pathname, r) =>
                        ~Rejected(SubpathOf(req[h].pathname))

C5_Witness ==
    \E h \in Handlers :
        /\ Done(h)
        /\ req[h].pathname = <<"/", "libreoffice", "/", "evil", ".", "exe">>
        /\ env.LIBREOFFICE_SOURCE # <<>>
        /\ resp[h].status = 403

\* C7: a dispatched request to a proxy route whose upstream base URL is empty
\* or absent is answered 503, with no upstream fetch and no cache lookup, by
\* the generic fetcher and by the compression-preserving fetcher alike.
C7_Unconfigured503 ==
    \A h \in Handlers : \A r \in ProxyRoutes :
        (/\ pc[h] # "idle"
         /\ OnRoute(req[h].pathname, r)
         /\ SourceOf(env, r) = <<>>) =>
            /\ NoFetch(h) /\ NoCacheUse(h)
            /\ pc[h] \in {"kv_get", "kv_put", "done"}
            /\ (Done(h) /\ Dispatched(h)) => resp[h].status = 503

C7_Witness ==
    \E h \in Handlers :
        /\ Done(h)
        /\ req[h].pathname = <<"/", "libreoffice", "/", "soffice", ".", "wasm">>
        /\ env.LIBREOFFICE_SOURCE = <<>>
        /\ resp[h].status = 503

\* C8: on a generic route, an upstream success response that declares a
\* Content-Length above 104857600 is answered 413, its body is not forwarded
\* and no cache entry is stored for the target; a declared length of exactly
\* 104857600 is accepted.
C8_DeclaredOversize413 ==
    \A h \in Handlers :
        (/\ Done(h)
         /\ loc[h].fn = "proxy"
         /\ ops[h].fetch = 1
         /\ ~loc[h].up.threw
         /\ loc[h].up.status >= 200 /\ loc[h].up.status <= 299
         /\ loc[h].up.declared # Absent) =>
            /\ loc[h].up.declared > 104857600 =>
                  /\ resp[h].status = 413
                  /\ resp[h].body.kind = "json"
                  /\ resp[h].body.data # loc[h].up.data
                  /\ ops[h].cachePut = 0
                  /\ Match(loc[h].target) = {}
            /\ loc[h].up.declared = 104857600 =>
                  /\ resp[h].status = 200
                  /\ resp[h].body.data = loc[h].up.data

C8_Witness ==
    \E h \in Handlers :
        /\ Done(h)
        /\ loc[h].fn = "proxy"
        /\ loc[h].up.status = 200
        /\ loc[h].up.declared = 104857601
        /\ resp[h].status = 413

\* The five CORS headers are on the response
HasCorsHeaders(h) ==
    { "Access-Control-Allow-Origin", "Access-Control-Allow-Methods",
      "Access-Control-Allow-Headers", "Access-Control-Expose-Headers",
      "Access-Control-Max-Age" } \subseteq { hd[1] : hd \in resp[h].headers }

\* C9: a PUT, DELETE, PATCH or POST request with an admitted origin is answered
\* 405 with the CORS headers on every path, never 429 even when the client is
\* over budget, and uses neither the store, the cache nor the upstream.
C9_OtherMethods405 ==
    \A h \in Handlers :
        (/\ Done(h)
         /\ req[h].method \in {"PUT", "DELETE", "PATCH", "POST"}
         /\ isAllowedOrigin(req[h].origin)) =>
            /\ resp[h].status = 405
            /\ HasCorsHeaders(h)
            /\ NoStoreUse(h) /\ NoCacheUse(h) /\ NoFetch(h)

C9_Witness ==
    \E h \in Handlers :
        /\ Done(h)
        /\ req[h].method = "DELETE"
        /\ req[h].pathname = <<"/", "gs", "/", "gs", ".", "js">>
        /\ resp[h].status = 405
        /\ env.RATE_LIMIT_KV
        /\ InWindow(kv[RateLimitKey(req[h].ip)], time) >= 100

\* C10: an OPTIONS request to any path is answered 204 with an empty body, the
\* CORS headers and Access-Control-Max-Age: 86400, and uses neither the store,
\* the cache nor the upstream.
C10_Preflight204 ==
    \A h \in Handlers :
        (Done(h) /\ req[h].method = "OPTIONS") =>
            /\ resp[h].status = 204
            /\ resp[h].body.kind = "empty"
            /\ HasCorsHeaders(h)
            /\ <<"Access-Control-Max-Age", <<"86400">>>> \in resp[h].headers
            /\ NoStoreUse(h) /\ NoCacheUse(h) /\ NoFetch(h)

C10_Witness ==
    \E h \in Handlers :
        /\ Done(h)
        /\ req[h].method = "OPTIONS"
        /\ req[h].origin = OriginForeign
        /\ req[h].pathname = <<"/", "gs", "/", "gs", ".", "js">>
        /\ resp[h].status = 204
        /\ env.RATE_LIMIT_KV
        /\ InWindow(kv[RateLimitKey(req[h].ip)], time) >= 100

\* C6: of two GET requests to the same subpath of a generic route, handled one
\* after the other, the first having got a 200 from the upstream within the
\* size limit, the second, while the entry's max-age has not passed, is
\* answered 200 with the same body and fetches nothing from the upstream.
C6_SecondServedFromCache ==
    \A a \in Handlers : \A b \in Handlers \ {a} :
        (/\ Done(a) /\ Done(b)
         /\ req[a].id < req[b].id
         /\ req[a].method = "GET" /\ req[b].method = "GET"
         /\ req[a].pathname = req[b].pathname
         /\ \E r \in GenericRoutes : OnRoute(req[a].pathname, r)
         /\ ops[a].fetch = 1
         /\ ~loc[a].up.threw
         /\ loc[a].up.status = 200
         /\ loc[a].up.len <= 104857600
         /\ time - loc[a].now < 604800 * 1000) =>
            /\ resp[a].status = 200
            /\ resp[b].status = 200
            /\ resp[b].body.kind = "bytes"
            /\ resp[b].body.data = loc[a].up.data
            /\ resp[b].body = resp[a].body
            /\ ops[b].fetch = 0

C6_Witness ==
    \E a \in Handlers : \E b \in Handlers \ {a} :
        /\ Done(a) /\ Done(b)
        /\ req[a].id < req[b].id
        /\ req[a].pathname = req[b].pathname
        /\ OnRoute(req[a].pathname, "pymupdf")
        /\ ops[a].fetch = 1
        /\ loc[a].up.status = 200
        /\ loc[b].now > loc[a].now
        /\ resp[b].status = 200
        /\ ops[b].fetch = 0

\* The request's path ends in one of the extensions
EndsInAny(pathname, exts) == \E x \in exts : EndsWith(pathname, <<".", x>>)

\* C11: on the /libreoffice route with a configured upstream, a dispatched
\* request whose subpath ends in .wasm or .data makes exactly one upstream
\* fetch, of the subpath with ".gz" appended (a subpath ending in .gz is
\* fetched as it is); a success of the upstream is answered 200 with
\* Content-Encoding: gzip and the upstream's bytes, and for soffice.wasm with
\* Content-Type: application/wasm.
C11_GzTranslation ==
    \A h \in Handlers :
        (/\ Done(h)
         /\ Dispatched(h)
         /\ OnRoute(req[h].pathname, "libreoffice")
         /\ env.LIBREOFFICE_SOURCE # <<>>
         /\ EndsInAny(req[h].pathname, {"wasm", "data", "gz"})) =>
            /\ ops[h].fetch = 1
            /\ loc[h].target =
                  StripTrailingSlash(env.LIBREOFFICE_SOURCE)
                    \o SubpathOf(req[h].pathname)
                    \o (IF EndsInAny(req[h].pathname, {"wasm", "data"})
                        THEN <<".", "gz">> ELSE <<>>)
            /\ (~loc[h].up.threw /\ loc[h].up.status \in 200..299) =>
                  /\ resp[h].status = 200
                  /\ <<"Content-Encoding", <<"gzip">>>> \in resp[h].headers
                  /\ resp[h].body.kind = "bytes"
                  /\ resp[h].body.data = loc[h].up.data
                  /\ resp[h].body.len = loc[h].up.len
                  /\ EndsWith(req[h].pathname, <<"/", "soffice", ".", "wasm">>) =>
                        <<"Content-Type", <<"application/wasm">>>> \in resp[h].headers

C11_Witness ==
    \E h \in Handlers :
        /\ Done(h)
        /\ req[h].pathname = <<"/", "libreoffice", "/", "soffice", ".", "wasm">>
        /\ loc[h].target = <<"https://cdn.example/lo", "/", "soffice", ".", "wasm", ".", "gz">>
        /\ resp[h].status = 200
        /\ resp[h].body.data = "v1"
        /\ <<"Content-Type", <<"application/wasm">>>> \in resp[h].headers

\* C12: handling one request issues at most one upstream fetch, on every route
\* and whatever the upstream gives; a network error is answered 500 and a
\* non-success status is answered with that status, after that one fetch.
C12_NoRetry ==
    \A h \in Handlers :
        /\ ops[h].fetch <= 1
        /\ (Done(h) /\ ops[h].fetch = 1) =>
              /\ loc[h].up.threw => resp[h].status = 500
              /\ (~loc[h].up.threw /\ loc[h].up.status \notin 200..299) =>
                    resp[h].status = loc[h].up.status

C12_Witness ==
    \E h \in Handlers :
        /\ Done(h)
        /\ ops[h].fetch = 1
        /\ loc[h].up.threw
        /\ resp[h].status = 500
        /\ loc[h].fn = "gz"

\* C13: the read and the write of the rate limiter are two steps: a request is
\* admitted on the list the store held when it read, and writes that list with
\* its own timestamp appended whatever the store holds by then; so requests of
\* one client that interleave between read and write are all admitted, more
\* than 100 in one window, and a written timestamp is lost.
C13_ReadModifyWriteNotAtomic ==
    [][\A h \in Handlers :
          LET key == <<"wasm-ratelimit:", IF req[h].ip = "" THEN "unknown" ELSE req[h].ip>>
              read == SelectSeq(kv[key], LAMBDA t : loc[h].now - t < 60000)
          IN  /\ (pc[h] = "kv_get" /\ pc'[h] # "kv_get" /\ Len(read) < 100) =>
                    /\ pc'[h] = "kv_put"
                    /\ loc'[h].recent = Append(read, loc[h].now)
              /\ (pc[h] = "kv_put" /\ pc'[h] # "kv_put") =>
                    kv'[key] = loc[h].recent]_<<kv, pc, loc>>

\* Two requests read the same 99 timestamps, both are admitted and both write:
\* 101 requests are admitted in the window and the store holds 100 timestamps
C13_Witness ==
    \E a \in Handlers : \E b \in Handlers \ {a} :
        LET stored == kv[RateLimitKey(ClientIP)]
        IN  /\ ops[a].kvPut = 1 /\ ops[b].kvPut = 1
            /\ req[a].ip = ClientIP /\ req[b].ip = ClientIP
            /\ Len(loc[a].recent) = 100 /\ Len(loc[b].recent) = 100
            /\ SubSeq(loc[a].recent, 1, 99) = SubSeq(loc[b].recent, 1, 99)
            /\ \A i \in 1..99 : time - loc[a].recent[i] < 60000
            /\ Len(stored) = 100
            /\ stored \in {loc[a].recent, loc[b].recent}

\* The values of a header of the response
HeaderValues(h, name) == { hd[2] : hd \in { x \in resp[h].headers : x[1] = name } }

\* C14: every response of the worker, whatever its status, carries one
\* Access-Control-Allow-Origin header, whose value is the request's Origin, or
\* '*' when the request has no Origin header.
C14_AllowOriginEchoesOrigin ==
    \A h \in Handlers :
        Done(h) =>
            HeaderValues(h, "Access-Control-Allow-Origin") =
                { IF req[h].origin = <<>> THEN <<"*">> ELSE req[h].origin }

C14_Witness ==
    \E h \in Handlers :
        /\ Done(h)
        /\ req[h].origin = OriginSite
        /\ resp[h].status = 413
        /\ HeaderValues(h, "Access-Control-Allow-Origin") = {OriginSite}

\* C15 (as claimed): every error response (403, 404, 405, 413, 429, 500, 503
\* or a mirrored upstream failure) has a JSON body with an error field and a
\* message field, and the body of a mirrored upstream failure also has the
\* fields status, statusText and targetUrl.
C15_ErrorBodiesJsonWithMessage ==
    \A h \in Handlers :
        (Done(h) /\ resp[h].status >= 400) =>
            /\ resp[h].body.kind = "json"
            /\ {"error", "message"} \subseteq resp[h].body.fields
            /\ (/\ ops[h].fetch = 1
                /\ ~loc[h].up.threw
                /\ loc[h].up.status \notin 200..299) =>
                  {"status", "statusText", "targetUrl"} \subseteq resp[h].body.fields

\* C16: a request on the /libreoffice route whose subpath ends in .wasm, .data
\* or .gz looks nothing up in the cache and stores nothing in it: the step
\* that handles its upstream response leaves the cache as it was, the cache
\* never holds an entry for its target, and each such request that is
\* answered 200 has made its own upstream fetch.
C16_GzBypassesCache ==
    \A h \in Handlers :
        (/\ pc[h] # "idle"
         /\ OnRoute(req[h].pathname, "libreoffice")
         /\ EndsInAny(req[h].pathname, {"wasm", "data", "gz"})) =>
            /\ ops[h].cacheMatch = 0
            /\ ops[h].cachePut = 0
            /\ pc[h] \notin {"cache_match", "fetch", "cache_put"}
            /\ loc[h].target # <<>> => \A e \in cache : e.url # loc[h].target
            /\ (Done(h) /\ resp[h].status = 200) => ops[h].fetch = 1

\* Two such requests, one after the other, both answered 200, each after a
\* fetch of its own, while the cache holds an entry of a generic route
C16_Witness ==
    \E a \in Handlers : \E b \in Handlers \ {a} :
        /\ Done(a) /\ Done(b)
        /\ req[a].id < req[b].id
        /\ req[a].pathname = <<"/", "libreoffice", "/", "soffice", ".", "wasm">>
        /\ req[b].pathname = req[a].pathname
        /\ resp[a].status = 200 /\ resp[b].status = 200
        /\ ops[a].fetch = 1 /\ ops[b].fetch = 1
        /\ cache # {}

\* C17: a new LibreOfficeConverter's basePath is the constructor's override
\* when one is given; else VITE_LIBREOFFICE_CDN_URL when it is set, whatever
\* VITE_USE_CDN is; else the fixed default remote base when VITE_USE_CDN is
\* 'true'; else BASE_URL followed by 'libreoffice-wasm/'.
C17_BasePathPrecedence ==
    converter.made =>
        LET override == converter.override
            cdnUrl == importMetaEnv.VITE_LIBREOFFICE_CDN_URL
            useCdn == importMetaEnv.VITE_USE_CDN
        IN  /\ override # <<>> => converter.basePath = override
            /\ (override = <<>> /\ cdnUrl # <<>>) => converter.basePath = cdnUrl
            /\ (override = <<>> /\ cdnUrl = <<>> /\ useCdn = <<"true">>) =>
                  converter.basePath =
                    <<"https://cdn.jsdelivr.net/npm/@bentopdf/libreoffice-wasm@2.3.1/assets/">>
            /\ (override = <<>> /\ cdnUrl = <<>> /\ useCdn # <<"true">>) =>
                  converter.basePath =
                    importMetaEnv.BASE_URL \o <<"libreoffice-wasm", "/">>

\* The explicit remote base is taken although VITE_USE_CDN is 'false'
C17_Witness ==
    /\ converter.made
    /\ converter.override = <<>>
    /\ importMetaEnv.VITE_USE_CDN = <<"false">>
    /\ importMetaEnv.VITE_LIBREOFFICE_CDN_URL = <<"https://priority-cdn.example.com/wasm/">>
    /\ converter.basePath = <<"https://priority-cdn.example.com/wasm/">>

\* C18 (as claimed): no 200 response on any route, the /libreoffice .wasm,
\* .data and .gz path included, delivers an upstream response that declared a
\* Content-Length above 100 MiB.
C18_CeilingOnEveryPath ==
    \A h \in Handlers :
        (/\ Done(h)
         /\ resp[h].status = 200
         /\ ops[h].fetch = 1
         /\ loc[h].up.declared # Absent) =>
            loc[h].up.declared <= 104857600

\* The file name a gz subpath stands for: the subpath without a final ".gz"
OriginalName(subpath) ==
    IF EndsWith(subpath, <<".", "gz">>)
    THEN SubSeq(subpath, 1, Len(subpath) - 2)
    ELSE subpath

\* C19 (as claimed): a 200 of the Compression-Preserving Fetcher has
\* Content-Type application/wasm exactly when the original file name, before
\* ".gz", ends in .wasm, whatever the file is called, and
\* application/octet-stream otherwise.
C19_ContentTypeFromExtension ==
    \A h \in Handlers :
        (Done(h) /\ loc[h].fn = "gz" /\ resp[h].status = 200 /\ ops[h].fetch = 1) =>
            HeaderValues(h, "Content-Type") =
                { IF EndsWith(OriginalName(loc[h].subpath), <<".", "wasm">>)
                  THEN <<"application/wasm">>
                  ELSE <<"application/octet-stream">> }

\* C20: in every reachable state, under any interleaving of concurrent
\* requests, the list stored for a client key holds at most 100 timestamps,
\* and so does the list a request is about to write.
C20_StoredListAtMostBudget ==
    /\ \A k \in DOMAIN kv : Len(kv[k]) <= 100
    /\ \A h \in Handlers : pc[h] = "kv_put" => Len(loc[h].recent) <= 100

\* The stored list is full after two requests that interleaved wrote it
C20_Witness ==
    \E a \in Handlers : \E b \in Handlers \ {a} :
        /\ ops[a].kvPut = 1 /\ ops[b].kvPut = 1
        /\ ops[b].kvGet = 1
        /\ loc[a].recent = loc[b].recent
        /\ Len(kv[RateLimitKey(ClientIP)]) = 100

\* C21: the step that answers a request 429 leaves the rate-limit store as it
\* was, and so does the rest of that request's handling: the request makes no
\* write to the store, so its timestamp is not appended and the stored list is
\* not rewritten.
C21_RejectionLeavesStore ==
    [][\A h \in Handlers :
          /\ (pc[h] = "kv_get" /\ pc'[h] = "done") =>
                /\ resp'[h].status = 429
                /\ kv' = kv
                /\ ops'[h].kvPut = 0
          /\ (pc[h] = "done" /\ resp[h].status = 429 /\ pc'[h] # "done") =>
                /\ ops[h].kvPut = 0
                /\ kv' = kv]_<<kv, pc, resp, ops>>

\* A request was answered 429 and the store holds the 100 timestamps it read
C21_Witness ==
    \E h \in Handlers :
        /\ Done(h)
        /\ resp[h].status = 429
        /\ ops[h].kvGet = 1
        /\ ops[h].kvPut = 0
        /\ Len(kv[RateLimitKey(req[h].ip)]) = 100
        /\ \A i \in 1..100 : loc[h].now - kv[RateLimitKey(req[h].ip)][i] < 60000

====
